---- MODULE Spec2Model ----
(***************************************************************************)
(* A model of price_aggregator.py: the fetch / aggregate / export pipeline *)
(* of main(), with the remote API as a nondeterministic environment.       *)
(*                                                                         *)
(* Strings that the program compares or sorts (the normalized timestamp    *)
(* keys) are sequences of character codes, so that Python's string order   *)
(* is the lexicographic order on them.  Opaque strings (questions, prices, *)
(* token texts) are TLA+ strings.                                          *)
(***************************************************************************)
EXTENDS Integers, Sequences, FiniteSets, TLC

VARIABLES
    pc,               \* position of main(): start, fetched, for_market, aggregate,
                      \* iterated, done, crashed
    event_data,       \* main: the value fetch_event_data returned
    markets,          \* main: primary_event.get('markets', [])
    idx,              \* main: 0-based index of the next market of the for loop
    market_questions, \* main: list of questions, in processing order
    question,         \* main: the question process_market returned
    price_history,    \* main: the series process_market returned (None as <<>>)
    combined_data,    \* main: defaultdict(dict), key -> (question -> price)
    file_written,     \* whether output.csv has been opened for writing
    csv_rows,         \* the rows csv.writer wrote to output.csv
    exception,        \* the uncaught exception that ended main(), or "none"
    requests_log,     \* history: the GET requests issued so far, in order
    own,              \* history: per processed market, key -> last own price
    utc_timestamp,    \* convert_to_eastern: the argument of the latest call
    est_str,          \* convert_to_eastern: the result of the latest call
    prev_timestamp,   \* the argument of the call before the latest
    prev_str          \* the result of the call before the latest

vars == <<pc, event_data, markets, idx, market_questions, question, price_history,
          combined_data, file_written, csv_rows, exception, requests_log, own,
          utc_timestamp, est_str, prev_timestamp, prev_str>>

pipeVars == <<pc, event_data, markets, idx, market_questions, question, price_history,
              combined_data, file_written, csv_rows, exception, requests_log, own>>

timeVars == <<utc_timestamp, est_str, prev_timestamp, prev_str>>

-----------------------------------------------------------------------------
(* Bounds of the model *)

MaxMarkets == 2
MaxHistLen == 2
MaxStep == 4

-----------------------------------------------------------------------------
(* Program constants *)

FIDELITY == 10
INTERVAL == "1m"
API_URL == "https://gamma-api.polymarket.com/events?slug=will-trump-remove-jerome-powell"
BASE_URL == "https://clob.polymarket.com"

-----------------------------------------------------------------------------
(* Character strings as sequences of character codes *)

Chr(c) ==
    CASE c = " " -> 32
      [] c = "-" -> 45
      [] c = ":" -> 58
      [] c = "E" -> 69
      [] c = "T" -> 84

Digit(n) == 48 + n

\* Python's str < str: the first differing character decides, a proper
\* prefix is the smaller.
RECURSIVE StrLess(_, _)
StrLess(a, b) ==
    IF b = <<>> THEN FALSE
    ELSE IF a = <<>> THEN TRUE
    ELSE IF Head(a) # Head(b) THEN Head(a) < Head(b)
    ELSE StrLess(Tail(a), Tail(b))

StrLeq(a, b) == a = b \/ StrLess(a, b)

-----------------------------------------------------------------------------
(* convert_to_eastern: datetime.fromtimestamp(t, utc).astimezone(US/Eastern)  *)
(* .strftime('%Y-%m-%d %H:%M:%S') + " ET", for the years 2007..2037 of the    *)
(* zone's current rule.                                                       *)

\* Days since 1970-01-01 of the proleptic Gregorian date y-m-d.
DaysFromCivil(y, m, d) ==
    LET yy  == IF m <= 2 THEN y - 1 ELSE y
        era == yy \div 400
        yoe == yy - era * 400
        mp  == IF m > 2 THEN m - 3 ELSE m + 9
        doy == (153 * mp + 2) \div 5 + d - 1
        doe == yoe * 365 + yoe \div 4 - yoe \div 100 + doy
    IN  era * 146097 + doe - 719468

\* The Gregorian date of a day number, as datetime computes it.
CivilFromDays(days) ==
    LET z   == days + 719468
        era == z \div 146097
        doe == z - era * 146097
        yoe == (doe - doe \div 1460 + doe \div 36524 - doe \div 146096) \div 365
        doy == doe - (365 * yoe + yoe \div 4 - yoe \div 100)
        mp  == (5 * doy + 2) \div 153
        d   == doy - (153 * mp + 2) \div 5 + 1
        m   == IF mp < 10 THEN mp + 3 ELSE mp - 9
        y   == yoe + era * 400 + (IF m <= 2 THEN 1 ELSE 0)
    IN  [year |-> y, month |-> m, day |-> d]

\* Day number of the n-th Sunday of month m of year y (1970-01-01 is a Thursday).
NthSunday(y, m, n) ==
    LET first == DaysFromCivil(y, m, 1)
        wd    == (first + 4) % 7
    IN  first + ((7 - wd) % 7) + 7 * (n - 1)

\* US/Eastern: daylight time from the second Sunday of March, 02:00 EST
\* (07:00 UTC), to the first Sunday of November, 02:00 EDT (06:00 UTC).
DstStart(y) == NthSunday(y, 3, 2) * 86400 + 7 * 3600
DstEnd(y) == NthSunday(y, 11, 1) * 86400 + 6 * 3600

\* tzinfo.fromutc: the offset in force at the UTC instant t, in seconds.
UtcOffset(t) ==
    LET y == CivilFromDays(t \div 86400).year
    IN  IF DstStart(y) <= t /\ t < DstEnd(y) THEN -4 * 3600 ELSE -5 * 3600

\* strftime's zero-padded two-digit field.
Pad2Unpadded(n) == IF n < 10 THEN <<Digit(n)>> ELSE <<Digit(n \div 10), Digit(n % 10)>>

Pad2(n) == <<Digit(n \div 10), Digit(n % 10)>>

\* strftime's %Y for a four-digit year.
Pad4(n) == <<Digit(n \div 1000), Digit((n \div 100) % 10),
             Digit((n \div 10) % 10), Digit(n % 10)>>

convert_to_eastern(t) ==
    LET local == t + UtcOffset(t)
        date  == CivilFromDays(local \div 86400)
        sod   == local % 86400
    IN  Pad4(date.year) \o <<Chr("-")>> \o Pad2(date.month) \o <<Chr("-")>>
          \o Pad2(date.day) \o <<Chr(" ")>>
          \o Pad2(sod \div 3600) \o <<Chr(":")>> \o Pad2((sod % 3600) \div 60)
          \o <<Chr(":")>> \o Pad2(sod % 60)
          \o <<Chr(" "), Chr("E"), Chr("T")>>

-----------------------------------------------------------------------------
(* The remote API: the values its responses are drawn from *)

Timestamps == {1699162200, 1699165800, 1700000000}
Prices == {"0.40", "0.42"}
QuestionTexts == {"Market 2"}

\* clobTokenIds texts: not JSON, a JSON number, an empty array, a first
\* element that is no integer text, a good array.
TokenTexts == {"not-json", "123", "[]", "[\"abc\"]", "[\"111\", \"222\"]"}

\* A market record carries clobTokenIds and question, or lacks either.
Markets ==
    {[id |-> "m"]}
      \cup {[id |-> "m", question |-> q] : q \in QuestionTexts}
      \cup {[id |-> "m", clobTokenIds |-> c] : c \in TokenTexts}
      \cup {[id |-> "m", question |-> q, clobTokenIds |-> c] :
              q \in QuestionTexts, c \in TokenTexts}

SeqsUpTo(S, n) == UNION {[1..k -> S] : k \in 0..n}

\* JSON values are tagged: none (Python None), string, array, object.
JsonNone == [type |-> "none"]
JsonString(s) == [type |-> "string", text |-> s]
JsonArray(items) == [type |-> "array", items |-> items]
JsonObject(obj) == [type |-> "object", obj |-> obj]

\* Event objects with at most n markets, and one without "markets".
EventObjects(n) ==
    {JsonObject([id |-> "e"])}
      \cup {JsonObject([id |-> "e", markets |-> ms]) : ms \in SeqsUpTo(Markets, n)}

\* What requests.get(API_URL) can bring: a failure (transport error, non-2xx
\* status, a body that is not JSON), or a JSON body: null, an empty array, an
\* array of a string, an array of one event object (the form the endpoint
\* answers in), a bare event object (of at most one market).
EventResponses ==
    {[status |-> "error"]}
      \cup {[status |-> "ok", body |-> b] :
              b \in {JsonNone, JsonArray(<<>>), JsonArray(<<JsonString("x")>>)}
                      \cup EventObjects(1)
                      \cup {JsonArray(<<e>>) : e \in EventObjects(MaxMarkets)}}

\* Price points; a malformed one lacks "t" or lacks "p".
Points == [t : Timestamps, p : Prices]
BadPoints == {[p |-> "0.40"], [t |-> 1700000000]}

\* A series of well-formed points, or one whose last point is malformed.
Series ==
    SeqsUpTo(Points, MaxHistLen)
      \cup {Append(s, b) : s \in SeqsUpTo(Points, MaxHistLen - 1), b \in BadPoints}

\* What requests.get(BASE_URL/prices-history) can bring: a failure, or a JSON
\* body: an array, an object without "history", an object with a series.
HistoryResponses ==
    {[status |-> "error"],
     [status |-> "ok", body |-> JsonArray(<<>>)],
     [status |-> "ok", body |-> JsonObject([error |-> "x"])]}
      \cup {[status |-> "ok", body |-> JsonObject([history |-> h])] : h \in Series}

-----------------------------------------------------------------------------
(* fetch_event_data *)

fetch_event_data(response) ==
    IF response.status = "error" THEN JsonNone ELSE response.body

\* Python's truth value of a JSON value.
Truthy(v) ==
    CASE v.type = "none" -> FALSE
      [] v.type = "string" -> v.text # ""
      [] v.type = "array" -> v.items # <<>>
      [] v.type = "object" -> DOMAIN v.obj # {}

-----------------------------------------------------------------------------
(* process_market *)

\* json.loads on the token texts the API can send and on the default 'N/A'.
json_loads(text) ==
    CASE text = "123" -> [ok |-> TRUE, value |-> [type |-> "number", num |-> 123]]
      [] text = "[]" -> [ok |-> TRUE, value |-> JsonArray(<<>>)]
      [] text = "[\"abc\"]" -> [ok |-> TRUE, value |-> JsonArray(<<JsonString("abc")>>)]
      [] text = "[\"111\", \"222\"]" ->
            [ok |-> TRUE, value |-> JsonArray(<<JsonString("111"), JsonString("222")>>)]
      [] OTHER -> [ok |-> FALSE]

\* int(x) on the first element of the array.
int_of(v) ==
    CASE v.type = "string" /\ v.text = "111" -> [exc |-> "none", val |-> 111]
      [] v.type = "string" /\ v.text = "222" -> [exc |-> "none", val |-> 222]
      [] v.type = "string" -> [exc |-> "ValueError"]
      [] OTHER -> [exc |-> "TypeError"]

\* Lines 39-40: the exception raised by json.loads, token_ids[0] or int(),
\* or the token id.
first_token_id(token_id_str) ==
    LET parsed == json_loads(token_id_str)
    IN  IF ~parsed.ok THEN [exc |-> "JSONDecodeError"]
        ELSE IF parsed.value.type # "array" THEN [exc |-> "TypeError"]
        ELSE IF parsed.value.items = <<>> THEN [exc |-> "IndexError"]
        ELSE int_of(parsed.value.items[1])

\* Line 42: except (json.JSONDecodeError, IndexError, ValueError).
CaughtInProcessMarket == {"JSONDecodeError", "IndexError", "ValueError"}

PlaceholderFromZero(index) == "Market " \o ToString(index)

\* Line 28: f'Market {index+1}', index counted from 0.
Placeholder(index) == "Market " \o ToString(index + 1)

question_of(market, index) ==
    IF "question" \in DOMAIN market THEN market.question ELSE Placeholder(index)

token_id_str_of(market) ==
    IF "clobTokenIds" \in DOMAIN market THEN market.clobTokenIds ELSE "N/A"

-----------------------------------------------------------------------------
(* fetch_historical_prices *)

HistoryRequest(token_id, index) ==
    [url |-> BASE_URL \o "/prices-history",
     params |-> [market |-> token_id, interval |-> INTERVAL, fidelity |-> FIDELITY],
     for_market |-> index]

RequestsForHistoryRetry(token_id, index, response) ==
    IF response.status = "error"
    THEN <<HistoryRequest(token_id, index), HistoryRequest(token_id, index)>>
    ELSE <<HistoryRequest(token_id, index)>>

\* Lines 54-60: one GET, whatever its outcome.
RequestsForHistory(token_id, index, response) == <<HistoryRequest(token_id, index)>>

\* The value returned, or the exception of response.json().get on a non-dict.
fetch_historical_prices(response) ==
    IF response.status = "error" THEN [exc |-> "none", val |-> <<>>]
    ELSE IF response.body.type # "object" THEN [exc |-> "AttributeError"]
    ELSE IF "history" \in DOMAIN response.body.obj
         THEN [exc |-> "none", val |-> response.body.obj.history]
         ELSE [exc |-> "none", val |-> <<>>]

-----------------------------------------------------------------------------
(* The aggregation loop of main(), lines 116-120 *)

\* convert_to_eastern on the timestamps the API can send, computed once.
timestamp_str_of == [t \in Timestamps |-> convert_to_eastern(t)]

\* dict.get(key, default)
Get(d, key, default) == IF key \in DOMAIN d THEN d[key] ELSE default

SetCellFirstWins(table, key, label, price) ==
    LET row == Get(table, key, <<>>)
    IN  [k \in DOMAIN table \cup {key} |->
            IF k = key
            THEN [q \in DOMAIN row \cup {label} |->
                    IF q \in DOMAIN row THEN row[q] ELSE price]
            ELSE table[k]]

\* Line 120: combined_data[timestamp_str][question] = price, on a defaultdict(dict).
SetCell(table, key, label, price) ==
    LET row == Get(table, key, <<>>)
    IN  [k \in DOMAIN table \cup {key} |->
            IF k = key
            THEN [q \in DOMAIN row \cup {label} |->
                    IF q = label THEN price ELSE row[q]]
            ELSE table[k]]

\* The for loop over price_history: each point is converted and stored in
\* turn; data_point["t"] or data_point['p'] of a point lacking the field
\* raises KeyError, which ends the loop with the earlier points stored.
RECURSIVE Aggregate(_, _, _)
Aggregate(table, label, series) ==
    IF series = <<>> THEN [table |-> table, exc |-> "none"]
    ELSE LET data_point == Head(series)
         IN  IF "t" \notin DOMAIN data_point \/ "p" \notin DOMAIN data_point
             THEN [table |-> table, exc |-> "KeyError"]
             ELSE Aggregate(SetCell(table, timestamp_str_of[data_point.t],
                                    label, data_point.p),
                            label, Tail(series))

-----------------------------------------------------------------------------
(* export_combined_csv *)

SortedDescending(S) ==
    CHOOSE s \in [1..Cardinality(S) -> S] :
        /\ \A k \in S : \E i \in DOMAIN s : s[i] = k
        /\ \A i, j \in DOMAIN s : i < j => StrLess(s[j], s[i])

\* Line 70: sorted(all_data.keys()), ascending in Python's string order.
Sorted(S) ==
    CHOOSE s \in [1..Cardinality(S) -> S] :
        /\ \A k \in S : \E i \in DOMAIN s : s[i] = k
        /\ \A i, j \in DOMAIN s : i < j => StrLess(s[i], s[j])

\* Line 74: the header row.
HeaderRow(questions) == <<"Timestamp (ET)">> \o questions

\* Lines 77-79: one data row.
DataRow(timestamp, all_data, questions) ==
    <<timestamp>> \o [j \in 1..Len(questions) |-> Get(all_data[timestamp], questions[j], "")]

\* The rows written to the file, in order.
export_combined_csv(all_data, questions) ==
    LET sorted_timestamps == Sorted(DOMAIN all_data)
    IN  <<HeaderRow(questions)>>
          \o [i \in 1..Len(sorted_timestamps) |->
                DataRow(sorted_timestamps[i], all_data, questions)]

-----------------------------------------------------------------------------
(* History variable: what each market's own series stored *)

RECURSIVE GoodPrefix(_)
GoodPrefix(series) ==
    IF series = <<>> THEN <<>>
    ELSE IF "t" \notin DOMAIN Head(series) \/ "p" \notin DOMAIN Head(series) THEN <<>>
    ELSE <<Head(series)>> \o GoodPrefix(Tail(series))

\* The price of the last point of the series whose key is the given key.
LastPriceAt(series, key) ==
    LET hits == {i \in DOMAIN series : timestamp_str_of[series[i].t] = key}
        last == CHOOSE i \in hits : \A j \in hits : j <= i
    IN  series[last].p

KeysOf(series) == {timestamp_str_of[series[i].t] : i \in DOMAIN series}

OwnMap(series) ==
    LET good == GoodPrefix(series)
    IN  [k \in KeysOf(good) |-> LastPriceAt(good, k)]

-----------------------------------------------------------------------------
(* main *)

Init ==
    /\ pc = "start"
    /\ event_data = JsonNone
    /\ markets = <<>>
    /\ idx = 0
    /\ market_questions = <<>>
    /\ question = ""
    /\ price_history = <<>>
    /\ combined_data = <<>>
    /\ file_written = FALSE
    /\ csv_rows = <<>>
    /\ exception = "none"
    /\ requests_log = <<>>
    /\ own = <<>>
    /\ utc_timestamp = 0
    /\ est_str = <<>>
    /\ prev_timestamp = 0
    /\ prev_str = <<>>

\* Line 89: event_data = fetch_event_data(API_URL).
FetchEventData ==
    /\ pc = "start"
    /\ \E response \in EventResponses :
          event_data' = fetch_event_data(response)
    /\ requests_log' = Append(requests_log, [url |-> API_URL])
    /\ pc' = "fetched"
    /\ UNCHANGED <<markets, idx, market_questions, question, price_history,
                   combined_data, file_written, csv_rows, exception, own, timeVars>>

\* Lines 90-92: nothing usable was fetched.
NoEventData ==
    /\ pc = "fetched"
    /\ ~Truthy(event_data)
    /\ pc' = "done"
    /\ UNCHANGED <<event_data, markets, idx, market_questions, question,
                   price_history, combined_data, file_written, csv_rows, exception,
                   requests_log, own, timeVars>>

\* Line 94.
primary_event == IF event_data.type = "array" THEN event_data.items[1] ELSE event_data

\* Line 95 on a primary event that is no dict: .get raises AttributeError.
ExtractMarketsRaises ==
    /\ pc = "fetched"
    /\ Truthy(event_data)
    /\ primary_event.type # "object"
    /\ pc' = "crashed"
    /\ exception' = "AttributeError"
    /\ UNCHANGED <<event_data, markets, idx, market_questions, question,
                   price_history, combined_data, file_written, csv_rows,
                   requests_log, own, timeVars>>

\* Lines 95-102: the markets list; an empty or missing one ends the run.
ExtractMarkets ==
    /\ pc = "fetched"
    /\ Truthy(event_data)
    /\ primary_event.type = "object"
    /\ markets' = Get(primary_event.obj, "markets", <<>>)
    /\ pc' = IF markets' = <<>> THEN "done" ELSE "for_market"
    /\ UNCHANGED <<event_data, idx, market_questions, question, price_history,
                   combined_data, file_written, csv_rows, exception, requests_log,
                   own, timeVars>>

\* Line 105 when process_market lets an exception of lines 39-40 escape.
ProcessMarketRaises ==
    /\ pc = "for_market"
    /\ idx < Len(markets)
    /\ LET token == first_token_id(token_id_str_of(markets[idx + 1]))
       IN  /\ token.exc \notin CaughtInProcessMarket \cup {"none"}
           /\ exception' = token.exc
    /\ pc' = "crashed"
    /\ UNCHANGED <<event_data, markets, idx, market_questions, question,
                   price_history, combined_data, file_written, csv_rows,
                   requests_log, own, timeVars>>

\* Line 105 when process_market catches the exception of lines 39-40 and
\* returns (question, None): nothing is fetched.
ProcessMarketNoToken ==
    /\ pc = "for_market"
    /\ idx < Len(markets)
    /\ first_token_id(token_id_str_of(markets[idx + 1])).exc \in CaughtInProcessMarket
    /\ question' = question_of(markets[idx + 1], idx)
    /\ price_history' = <<>>
    /\ pc' = "aggregate"
    /\ UNCHANGED <<event_data, markets, idx, market_questions, combined_data,
                   file_written, csv_rows, exception, requests_log, own, timeVars>>

\* Line 105 for a market with a token id: process_market issues the
\* price-history request and returns what fetch_historical_prices returns.
ProcessMarketFetch ==
    /\ pc = "for_market"
    /\ idx < Len(markets)
    /\ LET token == first_token_id(token_id_str_of(markets[idx + 1]))
       IN  /\ token.exc = "none"
           /\ \E response \in HistoryResponses :
                LET fetched == fetch_historical_prices(response)
                IN  /\ requests_log' =
                          requests_log \o RequestsForHistory(token.val, idx, response)
                    /\ IF fetched.exc # "none"
                       THEN /\ pc' = "crashed"
                            /\ exception' = fetched.exc
                            /\ UNCHANGED <<question, price_history>>
                       ELSE /\ pc' = "aggregate"
                            /\ question' = question_of(markets[idx + 1], idx)
                            /\ price_history' = fetched.val
                            /\ UNCHANGED exception
    /\ UNCHANGED <<event_data, markets, idx, market_questions, combined_data,
                   file_written, csv_rows, own, timeVars>>

\* Lines 106-110: the question is recorded; no price history, nothing stored.
NoPriceHistory ==
    /\ pc = "aggregate"
    /\ price_history = <<>>
    /\ market_questions' = Append(market_questions, question)
    /\ own' = Append(own, <<>>)
    /\ pc' = "iterated"
    /\ UNCHANGED <<event_data, markets, idx, question, price_history, combined_data,
                   file_written, csv_rows, exception, requests_log, timeVars>>

\* Lines 106-120: the question is recorded and the series is stored.
AggregatePriceHistory ==
    /\ pc = "aggregate"
    /\ price_history # <<>>
    /\ market_questions' = Append(market_questions, question)
    /\ own' = Append(own, OwnMap(price_history))
    /\ LET result == Aggregate(combined_data, question, price_history)
       IN  /\ combined_data' = result.table
           /\ exception' = result.exc
           /\ pc' = IF result.exc = "none" THEN "iterated" ELSE "crashed"
    /\ UNCHANGED <<event_data, markets, idx, question, price_history, file_written,
                   csv_rows, requests_log, timeVars>>

\* Line 104: the loop moves on; question and price_history of the iteration
\* that ended are dead until line 105 assigns them again.
NextMarket ==
    /\ pc = "iterated"
    /\ idx' = idx + 1
    /\ question' = ""
    /\ price_history' = <<>>
    /\ pc' = "for_market"
    /\ UNCHANGED <<event_data, markets, market_questions, combined_data,
                   file_written, csv_rows, exception, requests_log, own, timeVars>>

\* Lines 122-123: the table holds data, the CSV is written.
ExportCombinedCsv ==
    /\ pc = "for_market"
    /\ idx = Len(markets)
    /\ combined_data # <<>>
    /\ file_written' = TRUE
    /\ csv_rows' = export_combined_csv(combined_data, market_questions)
    /\ pc' = "done"
    /\ UNCHANGED <<event_data, markets, idx, market_questions, question,
                   price_history, combined_data, exception, requests_log, own,
                   timeVars>>

\* Lines 124-125: no data collected, no file.
NoDataCollected ==
    /\ pc = "for_market"
    /\ idx = Len(markets)
    /\ combined_data = <<>>
    /\ pc' = "done"
    /\ UNCHANGED <<event_data, markets, idx, market_questions, question,
                   price_history, combined_data, file_written, csv_rows, exception,
                   requests_log, own, timeVars>>

Next ==
    \/ FetchEventData
    \/ NoEventData
    \/ ExtractMarketsRaises
    \/ ExtractMarkets
    \/ ProcessMarketRaises
    \/ ProcessMarketNoToken
    \/ ProcessMarketFetch
    \/ NoPriceHistory
    \/ AggregatePriceHistory
    \/ NextMarket
    \/ ExportCombinedCsv
    \/ NoDataCollected

Spec == Init /\ [][Next]_vars

-----------------------------------------------------------------------------
(* convert_to_eastern on its own: pairs of timestamps around the end of     *)
(* daylight time 2023, the start of daylight time 2024 and a change of the  *)
(* hour from one digit to two, half an hour apart.                          *)

TimeSamples ==
    {base + k * 1800 : base \in {1699160400, 1710052200, 1700058600}, k \in 0..MaxStep}

InitTime ==
    /\ pc = "start"
    /\ event_data = JsonNone
    /\ markets = <<>>
    /\ idx = 0
    /\ market_questions = <<>>
    /\ question = ""
    /\ price_history = <<>>
    /\ combined_data = <<>>
    /\ file_written = FALSE
    /\ csv_rows = <<>>
    /\ exception = "none"
    /\ requests_log = <<>>
    /\ own = <<>>
    /\ utc_timestamp \in TimeSamples
    /\ prev_timestamp \in TimeSamples
    /\ est_str = <<>>
    /\ prev_str = <<>>

\* Two calls of convert_to_eastern, as for two points of a fetched series.
ConvertToEastern ==
    /\ est_str = <<>>
    /\ prev_str' = convert_to_eastern(prev_timestamp)
    /\ est_str' = convert_to_eastern(utc_timestamp)
    /\ UNCHANGED <<utc_timestamp, prev_timestamp, pipeVars>>

NextTime == ConvertToEastern

SpecTime == InitTime /\ [][NextTime]_vars

-----------------------------------------------------------------------------
(* Properties *)

Terminated == pc \in {"done", "crashed"}

\* The question the payload gives the i-th market (i counted from 1).
ExpectedQuestion(i) ==
    IF "question" \in DOMAIN markets[i] THEN markets[i].question
    ELSE "Market " \o ToString(i)

\* Token extraction fails for the i-th market of the payload.
TokenFails(i) == first_token_id(token_id_str_of(markets[i])).exc # "none"

\* The price-history requests of the log, in order.
HistoryRequests == SelectSeq(requests_log, LAMBDA r : r.url # API_URL)

\* The data rows of the file.
DataRows == SubSeq(csv_rows, 2, Len(csv_rows))

\* C1: the CSV is written iff, after all markets were processed, the table
\* holds an entry; a run whose event fetch yields nothing, or whose markets
\* all fail token extraction, ends without a file and without an exception.
C1_FileIffDataNoException ==
    Terminated =>
        /\ file_written <=> (pc = "done" /\ idx = Len(markets) /\ combined_data # <<>>)
        /\ (~Truthy(event_data) \/ (markets # <<>> /\ \A i \in DOMAIN markets : TokenFails(i)))
              => (pc = "done" /\ exception = "none" /\ ~file_written)

\* C2: whenever the CSV is exported, its header is "Timestamp (ET)" followed
\* by the question of every market of the payload, in payload order, with
\* "Market {i+1}" for a market at index i without a question, whether or not
\* the market produced data.
C2_HeaderIsAllQuestionsInOrder ==
    file_written =>
        /\ Len(csv_rows) >= 1
        /\ Len(csv_rows[1]) = 1 + Len(markets)
        /\ csv_rows[1][1] = "Timestamp (ET)"
        /\ \A i \in DOMAIN markets : csv_rows[1][i + 1] = ExpectedQuestion(i)

\* C2 witness: an exported file for two markets, one of them without a
\* question and one of them without any data.
C2_Witness ==
    /\ file_written
    /\ Len(markets) = 2
    /\ \E i \in DOMAIN markets : "question" \notin DOMAIN markets[i]
    /\ \E i \in DOMAIN own : own[i] = <<>>
    /\ \E i \in DOMAIN markets : TokenFails(i)

\* C3: every data row has 1 + N cells, and the cell of market Mi in the row
\* of key T is Mi's own stored price for T if a point of Mi normalizes to T,
\* and the empty string otherwise.
C3_SparseCells ==
    file_written =>
        \A r \in DOMAIN DataRows :
            /\ Len(DataRows[r]) = 1 + Len(markets)
            /\ \A i \in DOMAIN markets :
                  DataRows[r][i + 1] =
                      IF DataRows[r][1] \in DOMAIN own[i]
                      THEN own[i][DataRows[r][1]] ELSE ""

\* C4: after a market's series has been aggregated, the cell of each of its
\* keys holds the price of the last point of the series with that key.
C4_LastWriteWins ==
    (pc = "iterated" /\ price_history # <<>>) =>
        \A i \in DOMAIN price_history :
            (\A j \in DOMAIN price_history :
                j > i => timestamp_str_of[price_history[j].t]
                           # timestamp_str_of[price_history[i].t])
            => /\ timestamp_str_of[price_history[i].t] \in DOMAIN combined_data
               /\ question \in DOMAIN combined_data[timestamp_str_of[price_history[i].t]]
               /\ combined_data[timestamp_str_of[price_history[i].t]][question]
                     = price_history[i].p

\* C4 witness: a series with 0.40 and then 0.42 at two different Unix
\* timestamps of the same key has been aggregated, and the cell holds 0.42.
C4_Witness ==
    /\ pc = "iterated"
    /\ Len(price_history) = 2
    /\ price_history[1].t # price_history[2].t
    /\ timestamp_str_of[price_history[1].t] = timestamp_str_of[price_history[2].t]
    /\ price_history[1].p = "0.40"
    /\ price_history[2].p = "0.42"
    /\ combined_data[timestamp_str_of[price_history[2].t]][question] = "0.42"

\* C5: a market whose token extraction fails gets no price-history request,
\* has its question recorded, contributes no data, and does not abort the run.
C5_TokenFailureIsSkipped ==
    \A i \in DOMAIN markets :
        TokenFails(i) =>
            /\ \A k \in DOMAIN HistoryRequests : HistoryRequests[k].for_market # i - 1
            /\ i <= Len(own) => own[i] = <<>>
            /\ i <= Len(market_questions) => market_questions[i] = ExpectedQuestion(i)
            /\ ~(pc = "crashed" /\ idx = i - 1)
            /\ (pc = "done" => Len(market_questions) = Len(markets))

\* C6: whatever the event request and the price-history requests bring,
\* main() ends without an uncaught exception.
C6_NoUncaughtException == pc # "crashed" /\ exception = "none"

\* C7: the data rows are in strictly increasing order of their timestamp
\* strings, and their timestamps are exactly the keys that occur in the
\* series of the processed markets.
C7_RowsSortedOnePerKey ==
    file_written =>
        /\ \A r, u \in DOMAIN DataRows : r < u => StrLess(DataRows[r][1], DataRows[u][1])
        /\ {DataRows[r][1] : r \in DOMAIN DataRows}
              = UNION {DOMAIN own[i] : i \in DOMAIN own}

\* C7 witness: a file with two data rows, one of whose keys occurs in the
\* series of both markets.
C7_Witness ==
    /\ file_written
    /\ Len(DataRows) = 2
    /\ Len(own) = 2
    /\ DOMAIN own[1] \cap DOMAIN own[2] # {}
    /\ DOMAIN own[1] # DOMAIN own[2]

\* C8 as stated: for Unix timestamps t1 < t2, convert_to_eastern(t1) is
\* lexicographically at most convert_to_eastern(t2), also across a
\* daylight-saving transition.
C8_LexicographicIsChronological ==
    (est_str # <<>> /\ prev_timestamp < utc_timestamp) => StrLeq(prev_str, est_str)

\* C8 amended: for Unix timestamps t1 < t2, convert_to_eastern(t1) is
\* lexicographically at most convert_to_eastern(t2) whenever the zone's UTC
\* offset at t2 is not smaller than at t1, or t2 is at least an hour after t1.
C8_ChronologicalOutsideRepeatedHour ==
    (/\ est_str # <<>>
     /\ prev_timestamp < utc_timestamp
     /\ \/ UtcOffset(prev_timestamp) <= UtcOffset(utc_timestamp)
        \/ utc_timestamp - prev_timestamp >= 3600)
    => StrLeq(prev_str, est_str)

\* C8 witness: two timestamps an hour apart on either side of the end of
\* daylight time have been converted, to the same string.
C8_Witness ==
    /\ est_str # <<>>
    /\ utc_timestamp - prev_timestamp = 3600
    /\ UtcOffset(prev_timestamp) > UtcOffset(utc_timestamp)
    /\ prev_str = est_str

\* The markets whose call of process_market has returned or is past.
Touched == IF pc \in {"aggregate", "iterated"} THEN idx + 1 ELSE idx

\* C9: the event request is the first request and the only one of its kind;
\* price-history requests are in payload order, exactly one for each market
\* reached whose token was extracted and none for any other; a market's
\* series is aggregated before the next market is touched; the export
\* happens after the last market.
C9_RequestOrderNoRetry ==
    LET hr == HistoryRequests
    IN  /\ (requests_log = <<>>) <=> (pc = "start")
        /\ \A k \in DOMAIN requests_log : (requests_log[k].url = API_URL) <=> (k = 1)
        /\ \A k, l \in DOMAIN hr : k < l => hr[k].for_market < hr[l].for_market
        /\ \A k \in DOMAIN hr :
              /\ hr[k].for_market + 1 \in DOMAIN markets
              /\ ~TokenFails(hr[k].for_market + 1)
              /\ hr[k].for_market <= idx
              /\ hr[k].for_market < idx => Len(own) > hr[k].for_market
        /\ \A i \in 1..Touched :
              ~TokenFails(i) =>
                  Cardinality({k \in DOMAIN hr : hr[k].for_market = i - 1}) = 1
        /\ pc = "for_market" => (Len(own) = idx /\ Len(market_questions) = idx)
        /\ \A i \in DOMAIN market_questions : market_questions[i] = ExpectedQuestion(i)
        /\ file_written => (idx = Len(markets) /\ Len(own) = Len(markets))

\* C9 witness: a run over two markets with tokens has ended with a file; the
\* first market's request brought nothing and was not repeated.
C9_Witness ==
    /\ pc = "done"
    /\ file_written
    /\ Len(markets) = 2
    /\ Len(requests_log) = 3
    /\ own[1] = <<>>
    /\ own[2] # <<>>

\* C10: a price stored for market Mi at key T is not overwritten by a point
\* of another market, and every exported cell of Mi's column that holds a
\* price holds the price Mi's own series stored for that row's key.
C10_MarketsDoNotInterfere ==
    /\ \A i \in DOMAIN own :
          \A key \in DOMAIN own[i] :
              combined_data[key][market_questions[i]] = own[i][key]
    /\ file_written =>
          \A r \in DOMAIN DataRows :
              \A i \in DOMAIN own :
                  DataRows[r][i + 1] # "" =>
                      /\ DataRows[r][1] \in DOMAIN own[i]
                      /\ DataRows[r][i + 1] = own[i][DataRows[r][1]]

=============================================================================
